---- MODULE Spec2Model ----
(***************************************************************************)
(* Router (editor/src/plugins/sim/new_des_model/router.rs): the per-vehicle *)
(* remaining route and goal, with the on-demand parking-spot resolution.   *)
(* Several Routers share one parking-occupancy collaborator; the outer     *)
(* simulation loop is the only caller, and other vehicles claim and leave  *)
(* spots between the calls.                                                *)
(***************************************************************************)
EXTENDS Integers, Sequences, FiniteSets, TLC

\* the Routers and the parking occupancy they share
VARIABLES routers, taken, panicked, last
\* one Window of sim/src/analytics.rs
VARIABLES win, wadded, wlast
\* one Analytics instance of sim/src/analytics.rs
VARIABLES an, trace, apanic, q

rvars == <<routers, taken, panicked, last>>
wvars == <<win, wadded, wlast>>
avars == <<an, trace, apanic, q>>
vars == <<routers, taken, panicked, last, win, wadded, wlast, an, trace, apanic, q>>

\* the value of the variables of a component that a specification leaves out
NotInUse == "idle"

----------------------------------------------------------------------------
(* Bounds *)

\* distances (front, end_dist) range over 0..MaxDist
MaxDist == 3
\* routes handed to the constructors have at most MaxPathLen segments
MaxPathLen == 3

----------------------------------------------------------------------------
(* The map and the parking-occupancy collaborator, at their boundary *)

RouterIDs == {1, 2}
Lanes == {"l1", "l2"}
Turns == {"t1", "t2"}
Traversable == Lanes \cup Turns
Buildings == {"b1"}
ParkingSpots == {"s1", "s2"}
NoSpot == "none"
NoLane == "none"
Distance == 0..MaxDist

\* Traversable::as_lane succeeds only on a lane
IsLane(seg) == seg \in Lanes

\* Traversable::length(map)
Length(seg) == CASE seg = "l1" -> 3
                 [] seg = "l2" -> 2
                 [] OTHER -> 1

\* the segment that follows seg in the road network: l2 -t1-> l1 -t2-> l2
Successor(seg) == CASE seg = "l2" -> "t1"
                    [] seg = "t1" -> "l1"
                    [] seg = "l1" -> "t2"
                    [] OTHER -> "l2"

\* the precomputed routes of the route planner: connected, from lane to lane
Routes ==
  { p \in UNION { [1..n -> Traversable] : n \in 1..MaxPathLen } :
      /\ IsLane(p[1])
      /\ IsLane(p[Len(p)])
      /\ \A i \in 1..(Len(p) - 1) : p[i + 1] = Successor(p[i]) }

\* Map::find_closest_lane(lane, [Parking]): l1 has a parking lane, l2 has none
find_closest_lane(lane) == IF lane = "l1" THEN "p1" ELSE NoLane

\* the spots of a parking lane
SpotsOn(parking_lane) == IF parking_lane = "p1" THEN ParkingSpots ELSE {}

\* ParkingSimState::is_free
is_free(s, tk) == s \notin tk

\* ParkingSimState::get_first_free_spot(pos, vehicle): a free spot of the
\* lane that suits the vehicle, or none; which one is the collaborator's choice
get_first_free_spot(parking_lane, front, tk) ==
  { s \in SpotsOn(parking_lane) : is_free(s, tk) } \cup {NoSpot}

\* ParkingSimState::spot_to_driving_pos(spot, vehicle, lane, map).dist_along()
spot_to_driving_pos(s, lane) == IF s = "s1" THEN 0 ELSE 2

----------------------------------------------------------------------------
(* Router *)

\* Option<(ParkingSpot, Distance)>: None
NoCache == [spot |-> NoSpot, dist |-> 0]

\* Option<ActionAtEnd> values, and the marker of a call that did not return
Ret(kind, s) == [kind |-> kind, spot |-> s]
NoRet == Ret("NoReturn", NoSpot)
Panic == Ret("panic", NoSpot)

\* a Router that was not constructed yet
Unborn == [st |-> "unborn", route |-> <<>>, path |-> <<>>,
           goal |-> [type |-> "none", end_dist |-> 0, target |-> "none", spot |-> NoCache],
           advances |-> 0, evals |-> 0]

\* the record of the most recent call: its arguments, what it returned and
\* which collaborators it consulted
NoCall == [op |-> "none", r |-> 0, dist |-> 0, route |-> <<>>, ret |-> NoRet,
           seg |-> "none", old |-> NoCache, searched |-> FALSE, found |-> FALSE,
           queried |-> FALSE, sideEval |-> FALSE]

\* the test of line 35 with > for >=
too_far_gt(end_dist, path) == end_dist > Length(path[Len(path)])

\* Router::stop_suddenly, the test of line 35
too_far(end_dist, path) == end_dist >= Length(path[Len(path)])

\* Router::head
head(path) == path[1]

\* last_step testing for an exhausted path
last_step_empty(path) == Len(path) = 0

\* Router::last_step
last_step(path) == Len(path) = 1

\* what remains after pop_back
pop_back(path) == SubSeq(path, 1, Len(path) - 1)

\* VecDeque::pop_front: what remains
pop_front(path) == Tail(path)

\* the StopSuddenly arm firing at or past end_dist
StopAction_past(end_dist, front) ==
  IF end_dist <= front THEN Ret("Vanish", NoSpot) ELSE Ret("None", NoSpot)

\* maybe_handle_end, the StopSuddenly arm
StopAction(end_dist, front) ==
  IF end_dist = front THEN Ret("Vanish", NoSpot) ELSE Ret("None", NoSpot)

\* maybe_handle_end, lines 127-130
need_new_spot(spot, tk) ==
  IF spot = NoCache THEN TRUE ELSE is_free(spot.spot, tk)

\* a failed search that asks the vehicle to keep going
SearchFailed_none == Ret("None", NoSpot)

\* maybe_handle_end, line 145: what a failed search returns
SearchFailed == Ret("Vanish", NoSpot)

\* lines 149-153 firing at or past the cached distance
EndAction_past(spot, front) ==
  IF spot.dist <= front THEN Ret("StartParking", spot.spot) ELSE Ret("None", NoSpot)

\* maybe_handle_end, lines 149-153
EndAction(spot, front) ==
  IF spot.dist = front THEN Ret("StartParking", spot.spot) ELSE Ret("None", NoSpot)

\* find_parking_spot: the possible results, with the calls it made
find_parking_spot(lane, front, tk) ==
  LET parking_lane == find_closest_lane(lane) IN
  IF parking_lane = NoLane
  THEN { [found |-> FALSE, queried |-> FALSE, c |-> NoCache] }
  ELSE { IF s = NoSpot
         THEN [found |-> FALSE, queried |-> TRUE, c |-> NoCache]
         ELSE [found |-> TRUE, queried |-> TRUE,
               c |-> [spot |-> s, dist |-> spot_to_driving_pos(s, lane)]]
         : s \in get_first_free_spot(parking_lane, front, tk) }

\* one outcome of maybe_handle_end
Outcome(rt, ret, searched, found, queried) ==
  [rt |-> rt, ret |-> ret, searched |-> searched, found |-> found, queried |-> queried]

\* Router::maybe_handle_end: the possible outcomes of a call on Router rt
maybe_handle_end(rt, front, tk) ==
  IF rt.goal.type = "StopSuddenly"
  THEN { Outcome(rt, StopAction(rt.goal.end_dist, front), FALSE, FALSE, FALSE) }
  ELSE LET spot == rt.goal.spot IN
       IF need_new_spot(spot, tk)
       THEN IF rt.path = <<>> \/ ~IsLane(head(rt.path))
            THEN { Outcome(rt, Panic, FALSE, FALSE, FALSE) }
            ELSE { IF f.found
                   THEN Outcome([rt EXCEPT !.goal.spot = f.c],
                                EndAction(f.c, front), TRUE, TRUE, f.queried)
                   ELSE Outcome(rt, SearchFailed, TRUE, FALSE, f.queried)
                   : f \in find_parking_spot(head(rt.path), front, tk) }
       ELSE { Outcome(rt, EndAction(spot, front), FALSE, FALSE, FALSE) }

----------------------------------------------------------------------------
(* The calls of the simulation loop *)

Init ==
  /\ routers = [r \in RouterIDs |-> Unborn]
  /\ taken = {}
  /\ panicked = FALSE
  /\ last = NoCall
  /\ win = NotInUse /\ wadded = NotInUse /\ wlast = NotInUse
  /\ an = NotInUse /\ trace = NotInUse /\ apanic = NotInUse /\ q = NotInUse

\* Router::stop_suddenly(path, end_dist, map)
stop_suddenly(r, path, end_dist) ==
  /\ ~panicked
  /\ routers[r].st = "unborn"
  /\ IF too_far(end_dist, path)
     THEN /\ panicked' = TRUE
          /\ routers' = routers
          /\ last' = [NoCall EXCEPT !.op = "stop_suddenly", !.r = r, !.dist = end_dist,
                                    !.route = path, !.ret = Panic]
     ELSE /\ panicked' = FALSE
          /\ routers' = [routers EXCEPT ![r] =
                 [st |-> "alive", route |-> path, path |-> path,
                  goal |-> [type |-> "StopSuddenly", end_dist |-> end_dist,
                            target |-> "none", spot |-> NoCache],
                  advances |-> 0, evals |-> 0]]
          /\ last' = [NoCall EXCEPT !.op = "stop_suddenly", !.r = r, !.dist = end_dist,
                                    !.route = path]
  /\ UNCHANGED <<taken, wvars, avars>>

\* Router::park_near(path, bldg)
park_near(r, path, bldg) ==
  /\ ~panicked
  /\ routers[r].st = "unborn"
  /\ routers' = [routers EXCEPT ![r] =
         [st |-> "alive", route |-> path, path |-> path,
          goal |-> [type |-> "ParkNearBuilding", end_dist |-> 0,
                    target |-> bldg, spot |-> NoCache],
          advances |-> 0, evals |-> 0]]
  /\ last' = [NoCall EXCEPT !.op = "park_near", !.r = r, !.route = path]
  /\ UNCHANGED <<taken, panicked, wvars, avars>>

\* Router::advance(vehicle, parking, map)
advance(r) ==
  /\ ~panicked
  /\ routers[r].st = "alive"
  /\ IF routers[r].path = <<>>
     THEN /\ panicked' = TRUE
          /\ routers' = routers
          /\ last' = [NoCall EXCEPT !.op = "advance", !.r = r, !.ret = Panic]
     ELSE LET prev == head(routers[r].path)
              rt1 == [routers[r] EXCEPT !.path = pop_front(routers[r].path),
                                        !.advances = @ + 1]
          IN IF last_step(rt1.path)
             THEN \E o \in maybe_handle_end([rt1 EXCEPT !.evals = @ + 1], 0, taken) :
                    /\ panicked' = (o.ret = Panic)
                    /\ routers' = [routers EXCEPT ![r] = o.rt]
                    /\ last' = [NoCall EXCEPT !.op = "advance", !.r = r, !.seg = prev,
                                  !.ret = o.ret, !.old = rt1.goal.spot,
                                  !.searched = o.searched, !.found = o.found,
                                  !.queried = o.queried, !.sideEval = TRUE]
             ELSE /\ panicked' = FALSE
                  /\ routers' = [routers EXCEPT ![r] = rt1]
                  /\ last' = [NoCall EXCEPT !.op = "advance", !.r = r, !.seg = prev]
  /\ UNCHANGED <<taken, wvars, avars>>

\* Router::maybe_handle_end(front, vehicle, parking, map), called by the loop
HandleEnd(r, front) ==
  /\ ~panicked
  /\ routers[r].st = "alive"
  /\ \E o \in maybe_handle_end(routers[r], front, taken) :
       /\ panicked' = (o.ret = Panic)
       /\ routers' = [routers EXCEPT ![r] = o.rt]
       /\ last' = [NoCall EXCEPT !.op = "maybe_handle_end", !.r = r, !.dist = front,
                     !.ret = o.ret, !.old = routers[r].goal.spot,
                     !.searched = o.searched, !.found = o.found, !.queried = o.queried]
  /\ UNCHANGED <<taken, wvars, avars>>

\* get_end_dist unwrapping the cached spot on any segment
may_ask_end_dist_always(path) == TRUE

\* Router::get_end_dist, the assertion of line 87
may_ask_end_dist(path) == last_step(path)

\* Router::get_end_dist(): a query, the Router is borrowed immutably
get_end_dist(r) ==
  /\ ~panicked
  /\ routers[r].st = "alive"
  /\ LET rt == routers[r] IN
     IF ~may_ask_end_dist(rt.path)
     THEN /\ panicked' = TRUE
          /\ last' = [NoCall EXCEPT !.op = "get_end_dist", !.r = r, !.ret = Panic]
     ELSE IF rt.goal.type = "StopSuddenly"
     THEN /\ panicked' = FALSE
          /\ last' = [NoCall EXCEPT !.op = "get_end_dist", !.r = r,
                                    !.dist = rt.goal.end_dist]
     ELSE IF rt.goal.spot = NoCache
     THEN /\ panicked' = TRUE
          /\ last' = [NoCall EXCEPT !.op = "get_end_dist", !.r = r, !.ret = Panic]
     ELSE /\ panicked' = FALSE
          /\ last' = [NoCall EXCEPT !.op = "get_end_dist", !.r = r,
                                    !.dist = rt.goal.spot.dist]
  /\ UNCHANGED <<routers, taken, wvars, avars>>

\* the test of line 62 with > for >=
bad_start_gt(path, start_dist, end_dist) == Len(path) = 1 /\ start_dist > end_dist

\* Router::validate_start_dist, the test of line 62
bad_start(path, start_dist, end_dist) == Len(path) = 1 /\ start_dist >= end_dist

\* Router::validate_start_dist(start_dist): a query, the Router is borrowed immutably
validate_start_dist(r, start_dist) ==
  /\ ~panicked
  /\ routers[r].st = "alive"
  /\ LET rt == routers[r] IN
     IF rt.goal.type = "StopSuddenly" /\ bad_start(rt.path, start_dist, rt.goal.end_dist)
     THEN /\ panicked' = TRUE
          /\ last' = [NoCall EXCEPT !.op = "validate_start_dist", !.r = r,
                                    !.dist = start_dist, !.ret = Panic]
     ELSE /\ panicked' = FALSE
          /\ last' = [NoCall EXCEPT !.op = "validate_start_dist", !.r = r,
                                    !.dist = start_dist]
  /\ UNCHANGED <<routers, taken, wvars, avars>>

\* another vehicle takes a free spot
ClaimSpot(s) ==
  /\ ~panicked
  /\ is_free(s, taken)
  /\ taken' = taken \cup {s}
  /\ last' = [NoCall EXCEPT !.op = "claim"]
  /\ UNCHANGED <<routers, panicked, wvars, avars>>

\* a parked vehicle leaves its spot
LeaveSpot(s) ==
  /\ ~panicked
  /\ ~is_free(s, taken)
  /\ taken' = taken \ {s}
  /\ last' = [NoCall EXCEPT !.op = "leave"]
  /\ UNCHANGED <<routers, panicked, wvars, avars>>

Next ==
  \/ \E r \in RouterIDs, p \in Routes, d \in Distance : stop_suddenly(r, p, d)
  \/ \E r \in RouterIDs, p \in Routes, b \in Buildings : park_near(r, p, b)
  \/ \E r \in RouterIDs : advance(r)
  \/ \E r \in RouterIDs, front \in Distance : HandleEnd(r, front)
  \/ \E r \in RouterIDs : get_end_dist(r)
  \/ \E r \in RouterIDs, start_dist \in Distance : validate_start_dist(r, start_dist)
  \/ \E s \in ParkingSpots : ClaimSpot(s)
  \/ \E s \in ParkingSpots : LeaveSpot(s)

Spec == Init /\ [][Next]_vars

----------------------------------------------------------------------------
(* Window (sim/src/analytics.rs): the sliding-time-window counter *)

\* a Window receives at most MaxAdds timestamps
MaxAdds == 3
\* window lengths range over 0..MaxWindow
MaxWindow == 2
\* timestamps range over 0..MaxTime
MaxTime == 4

\* Window::new(window_size)
Window_new(window_size) == [times |-> <<>>, window_size |-> window_size]

\* the loop test of Window::count with >= for >
Expired_ge(end, front, window_size) == end - front >= window_size

\* Window::count, the loop test of line 612
Expired(end, front, window_size) == end - front > window_size

\* Window::count with an if for the while: at most one timestamp is dropped
Evict_once(times, end, window_size) ==
  IF times # <<>> /\ Expired(end, Head(times), window_size) THEN Tail(times) ELSE times

\* Window::count, the loop of lines 612-614: what remains of the queue
RECURSIVE Evict(_, _, _)
Evict(times, end, window_size) ==
  IF times # <<>> /\ Expired(end, Head(times), window_size)
  THEN Evict(Tail(times), end, window_size)
  ELSE times

\* Window::count(end): the Window afterwards; the count returned is its length
Window_count(w, end) == [w EXCEPT !.times = Evict(w.times, end, w.window_size)]

\* Window::add(time): the Window afterwards; the count returned is its length
Window_add(w, time) == Window_count([w EXCEPT !.times = Append(w.times, time)], time)

WindowInit ==
  /\ \E window_size \in 0..MaxWindow : win = Window_new(window_size)
  /\ wadded = <<>>
  /\ wlast = [op |-> "new", t |-> 0, ret |-> 0]
  /\ routers = NotInUse /\ taken = NotInUse /\ panicked = NotInUse /\ last = NotInUse
  /\ an = NotInUse /\ trace = NotInUse /\ apanic = NotInUse /\ q = NotInUse

\* Window::add(time), at a time not before the previous call's
WindowAdd(time) ==
  /\ Len(wadded) < MaxAdds
  /\ time >= wlast.t
  /\ win' = Window_add(win, time)
  /\ wadded' = Append(wadded, time)
  /\ wlast' = [op |-> "add", t |-> time, ret |-> Len(win'.times)]
  /\ UNCHANGED <<rvars, avars>>

\* Window::count(end), at a time not before the previous call's
WindowCount(end) ==
  /\ end >= wlast.t
  /\ win' = Window_count(win, end)
  /\ wlast' = [op |-> "count", t |-> end, ret |-> Len(win'.times)]
  /\ UNCHANGED <<wadded, rvars, avars>>

WindowNext ==
  \/ \E time \in 0..MaxTime : WindowAdd(time)
  \/ \E end \in 0..MaxTime : WindowCount(end)

SpecWindow == WindowInit /\ [][WindowNext]_vars

----------------------------------------------------------------------------
(* Analytics (sim/src/analytics.rs): the events and the map they refer to *)

\* one Analytics instance ingests at most MaxEvents events
MaxEvents == 3

Roads == {"r1", "r2"}
Intersections == {"i1"}
TurnGroups == {"g1"}
NoGroup == "none"
NoMode == "none"
NoReq == "none"

\* TripMode::all()
TripModes == {"Walk", "Bike", "Transit", "Drive"}

\* AgentID: a pedestrian, or a car of one of the three vehicle types
Agents == {"ped", "car", "bike", "bus"}

\* map.get_l(l).parent
LaneParent(l) == IF l = "l1" THEN "r1" ELSE "r2"

\* TurnID::parent
TurnParent(t) == "i1"

\* map.get_turn_group(t): t1 belongs to a turn group, t2 to none
get_turn_group(t) == IF t = "t1" THEN "g1" ELSE NoGroup

\* an Event, with the fields its kind does not have left blank
Blank == [kind |-> "none", agent |-> "none", to |-> "none", id |-> 0, mode |-> NoMode,
          dt |-> 0, bus |-> "none", route |-> "none", stop |-> "none", ped |-> "none",
          i |-> "none", req |-> NoReq, md |-> "", path |-> <<>>]

AgentEntersTraversable(a, to) ==
  [Blank EXCEPT !.kind = "AgentEntersTraversable", !.agent = a, !.to = to]
BusArrivedAtStop(bus, route, stop) ==
  [Blank EXCEPT !.kind = "BusArrivedAtStop", !.bus = bus, !.route = route, !.stop = stop]
PedReachedBusStop(ped, stop, route) ==
  [Blank EXCEPT !.kind = "PedReachedBusStop", !.ped = ped, !.stop = stop, !.route = route]
TripFinished(id, mode, dt) ==
  [Blank EXCEPT !.kind = "TripFinished", !.id = id, !.mode = mode, !.dt = dt]
TripAborted(id) ==
  [Blank EXCEPT !.kind = "TripAborted", !.id = id]
IntersectionDelayMeasured(i, delay) ==
  [Blank EXCEPT !.kind = "IntersectionDelayMeasured", !.i = i, !.dt = delay]
TripPhaseStarting(id, maybe_req, metadata) ==
  [Blank EXCEPT !.kind = "TripPhaseStarting", !.id = id, !.req = maybe_req, !.md = metadata]
PathAmended(path) ==
  [Blank EXCEPT !.kind = "PathAmended", !.path = path]

\* Analytics::event, lines 75-82: the trip mode of an agent
AgentMode(a) == CASE a = "ped" -> "Walk"
                  [] a = "car" -> "Drive"
                  [] a = "bike" -> "Bike"
                  [] OTHER -> "Transit"

----------------------------------------------------------------------------
(* usize arithmetic of the demand counter *)

\* a usize value: wraps * 2^64 + off, with off < 0 exactly when wraps = 1
Usize(n) == [wraps |-> 0, off |-> n]

\* x -= 1 on a usize: a debug build panics on underflow, a release build wraps
usize_dec(x) ==
  IF x = Usize(0)
  THEN { [v |-> x, panic |-> TRUE], [v |-> [wraps |-> 1, off |-> -1], panic |-> FALSE] }
  ELSE { [v |-> [x EXCEPT !.off = @ - 1], panic |-> FALSE] }

\* x += 1 on a usize; 2^64 - 1 is only reached in a build that wraps
usize_inc(x) ==
  IF x = [wraps |-> 1, off |-> -1] THEN Usize(0) ELSE [x EXCEPT !.off = @ + 1]

----------------------------------------------------------------------------
(* Analytics: ingestion *)

\* Analytics::new()
Analytics_new ==
  [count_per_road |-> [r \in Roads |-> 0],
   count_per_intersection |-> [i \in Intersections |-> 0],
   raw_per_road |-> <<>>,
   raw_per_intersection |-> <<>>,
   demand |-> [g \in TurnGroups |-> Usize(0)],
   test_expectations |-> <<>>,
   bus_arrivals |-> <<>>,
   bus_passengers_waiting |-> <<>>,
   finished_trips |-> <<>>,
   trip_log |-> <<>>,
   intersection_delays |-> [i \in Intersections |-> <<>>],
   record_anything |-> TRUE]

\* Analytics::default()
Analytics_default == [Analytics_new EXCEPT !.record_anything = FALSE]

\* ingestion that ignores the flag
recording_always(a) == TRUE

\* Analytics::event, the test of line 66
recording(a) == a.record_anything

\* a push that puts the record in front
push_front(log, rec) == <<rec>> \o log

\* Vec::push
push(log, rec) == Append(log, rec)

\* Analytics::record_demand: the demand map after the steps of path from k on
RECURSIVE record_demand_from(_, _, _)
record_demand_from(demand, path, k) ==
  IF k > Len(path) THEN demand
  ELSE LET step == path[k]
           id == IF step \in Turns THEN get_turn_group(step) ELSE NoGroup
       IN record_demand_from(
            IF id # NoGroup THEN [demand EXCEPT ![id] = usize_inc(@)] ELSE demand,
            path, k + 1)

\* Analytics::record_demand(path, map)
record_demand(a, path) ==
  [a EXCEPT !.demand = record_demand_from(a.demand, path, 1)]

\* a throughput section that logs the lane entry without counting it
Thruput_uncounted(a, ev, time) ==
  IF ev.kind # "AgentEntersTraversable" THEN { [an |-> a, panic |-> FALSE] }
  ELSE LET mode == AgentMode(ev.agent) IN
       IF ev.to \in Lanes
       THEN LET r == LaneParent(ev.to) IN
            { [an |-> [a EXCEPT !.raw_per_road =
                                   push(@, [time |-> time, mode |-> mode, x |-> r])],
               panic |-> FALSE] }
       ELSE LET i == TurnParent(ev.to)
                a1 == [a EXCEPT !.count_per_intersection[i] = @ + 1,
                                !.raw_per_intersection =
                                   push(@, [time |-> time, mode |-> mode, x |-> i])]
                id == get_turn_group(ev.to)
            IN IF id = NoGroup THEN { [an |-> a1, panic |-> FALSE] }
               ELSE { [an |-> [a1 EXCEPT !.demand[id] = d.v], panic |-> d.panic]
                      : d \in usize_dec(a1.demand[id]) }

\* Analytics::event, lines 73-105: the outcomes of the throughput section
Thruput(a, ev, time) ==
  IF ev.kind # "AgentEntersTraversable" THEN { [an |-> a, panic |-> FALSE] }
  ELSE LET mode == AgentMode(ev.agent) IN
       IF ev.to \in Lanes
       THEN LET r == LaneParent(ev.to) IN
            { [an |-> [a EXCEPT !.count_per_road[r] = @ + 1,
                                !.raw_per_road = push(@, [time |-> time, mode |-> mode, x |-> r])],
               panic |-> FALSE] }
       ELSE LET i == TurnParent(ev.to)
                a1 == [a EXCEPT !.count_per_intersection[i] = @ + 1,
                                !.raw_per_intersection =
                                   push(@, [time |-> time, mode |-> mode, x |-> i])]
                id == get_turn_group(ev.to)
            IN IF id = NoGroup THEN { [an |-> a1, panic |-> FALSE] }
               ELSE { [an |-> [a1 EXCEPT !.demand[id] = d.v], panic |-> d.panic]
                      : d \in usize_dec(a1.demand[id]) }

\* a matching that takes the first expected event equal to ev, wherever it is queued
Expect_anywhere(a, ev) ==
  LET queue == a.test_expectations
      hits == { k \in 1..Len(queue) : queue[k] = ev }
  IN IF hits = {} THEN a
     ELSE LET k == CHOOSE h \in hits : \A j \in hits : h <= j
          IN [a EXCEPT !.test_expectations = SubSeq(queue, 1, k - 1)
                                             \o SubSeq(queue, k + 1, Len(queue))]

\* Analytics::event, lines 107-111: the test expectations
Expect(a, ev) ==
  IF a.test_expectations # <<>> /\ ev = Head(a.test_expectations)
  THEN [a EXCEPT !.test_expectations = Tail(@)]
  ELSE a

\* Analytics::event, lines 113-136: bus arrivals, passengers, finished trips, delays
Logs(a, ev, time) ==
  CASE ev.kind = "BusArrivedAtStop" ->
         [a EXCEPT !.bus_arrivals = push(@, [time |-> time, car |-> ev.bus,
                                             route |-> ev.route, stop |-> ev.stop])]
    [] ev.kind = "PedReachedBusStop" ->
         [a EXCEPT !.bus_passengers_waiting =
                      push(@, [time |-> time, stop |-> ev.stop, route |-> ev.route])]
    [] ev.kind = "TripFinished" ->
         [a EXCEPT !.finished_trips =
                      push(@, [time |-> time, id |-> ev.id, mode |-> ev.mode, dt |-> ev.dt])]
    [] ev.kind = "TripAborted" ->
         [a EXCEPT !.finished_trips =
                      push(@, [time |-> time, id |-> ev.id, mode |-> NoMode, dt |-> 0])]
    [] ev.kind = "IntersectionDelayMeasured" ->
         [a EXCEPT !.intersection_delays[ev.i] = push(@, [time |-> time, dt |-> ev.dt])]
    [] OTHER -> a

\* Analytics::event, lines 139-155: the trip log and the demand
Consume(a, ev, time) ==
  CASE ev.kind = "TripPhaseStarting" ->
         [a EXCEPT !.trip_log = push(@, [time |-> time, id |-> ev.id,
                                         req |-> ev.req, md |-> ev.md])]
    [] ev.kind = "TripAborted" ->
         [a EXCEPT !.trip_log = push(@, [time |-> time, id |-> ev.id, req |-> NoReq,
                                         md |-> "trip aborted for some reason"])]
    [] ev.kind = "TripFinished" ->
         [a EXCEPT !.trip_log = push(@, [time |-> time, id |-> ev.id, req |-> NoReq,
                                         md |-> "trip finished"])]
    [] ev.kind = "PathAmended" -> record_demand(a, ev.path)
    [] OTHER -> a

\* Analytics::event(ev, time, map): the possible outcomes
event(a, ev, time) ==
  IF ~recording(a) THEN { [an |-> a, panic |-> FALSE] }
  ELSE { IF o.panic THEN o
         ELSE [an |-> Consume(Logs(Expect(o.an, ev), ev, time), ev, time), panic |-> FALSE]
         : o \in Thruput(a, ev, time) }

\* Option<Time>::None
NoTime == -1

\* the record of the most recent read query: its arguments and its result
NoQuery == [op |-> "none", now |-> 0, trip |-> 0, panic |-> FALSE, ret |-> <<>>]

\* the time of the latest call of event
Clock == IF trace = <<>> THEN 0 ELSE trace[Len(trace)].time

\* the simulation calls Analytics::event, at a time not before the previous call's
EventCall(ev, time) ==
  /\ ~apanic
  /\ Len(trace) < MaxEvents
  /\ time >= Clock
  /\ \E o \in event(an, ev, time) :
       /\ an' = o.an
       /\ apanic' = o.panic
  /\ trace' = Append(trace, [ev |-> ev, time |-> time])
  /\ q' = NoQuery
  /\ UNCHANGED <<rvars, wvars>>

\* the events of the ingestion runs: one or two of every kind
IngestEvents ==
  { AgentEntersTraversable("car", "l1"), AgentEntersTraversable("bus", "t1"),
    AgentEntersTraversable("ped", "t2"),
    BusArrivedAtStop("bus1", "route1", "stop1"),
    PedReachedBusStop("ped1", "stop1", "route1"),
    TripFinished(1, "Drive", 2), TripAborted(1),
    IntersectionDelayMeasured("i1", 1),
    TripPhaseStarting(1, NoReq, "CarID(1)"),
    PathAmended(<<"l2", "t1", "l1">>) }

\* the expected events a scripted scenario may have queued
ExpectationQueues ==
  { <<>>,
    <<TripAborted(1), AgentEntersTraversable("car", "l1")>>,
    <<AgentEntersTraversable("bus", "t1")>> }

\* a run starts from Analytics::new() or, after a savestate, Analytics::default()
IngestInit ==
  /\ \E a \in {Analytics_new, Analytics_default}, exp \in ExpectationQueues :
       an = [a EXCEPT !.test_expectations = exp]
  /\ trace = <<>>
  /\ apanic = FALSE
  /\ q = NoQuery
  /\ routers = NotInUse /\ taken = NotInUse /\ panicked = NotInUse /\ last = NotInUse
  /\ win = NotInUse /\ wadded = NotInUse /\ wlast = NotInUse

IngestNext ==
  \E ev \in IngestEvents, time \in Clock..(Clock + 1) : EventCall(ev, time)

SpecIngest == IngestInit /\ [][IngestNext]_vars

----------------------------------------------------------------------------
(* Analytics: the read queries over finished trips and trip phases *)

TripIDs == {1, 2}

\* the loops' early exit with >= for >
past_ge(t, now) == t >= now

\* the early exit of the loops over a time-ordered log (line 200)
past(t, now) == t > now

\* a DurationHistogram: the durations added, in order
DurationHistogram_new == <<>>

\* Analytics::all_finished_trips, the loop of lines 199-209 from record k on
RECURSIVE all_finished_trips_from(_, _, _, _)
all_finished_trips_from(log, k, now, acc) ==
  IF k > Len(log) \/ past(log[k].time, now) THEN acc
  ELSE all_finished_trips_from(log, k + 1, now,
         IF log[k].mode # NoMode
         THEN [acc EXCEPT !.all = Append(@, log[k].dt),
                          !.per_mode[log[k].mode] = Append(@, log[k].dt)]
         ELSE [acc EXCEPT !.num_aborted = @ + 1])

\* Analytics::all_finished_trips(now)
all_finished_trips(a, now) ==
  all_finished_trips_from(a.finished_trips, 1, now,
    [all |-> DurationHistogram_new, num_aborted |-> 0,
     per_mode |-> [m \in TripModes |-> DurationHistogram_new]])

\* a sentinel test that knows finished trips only
IsSentinel_finished_only(md) == md = "trip finished"

\* Analytics::get_trip_phases, the test of line 422
IsSentinel(md) == md = "trip finished" \/ md = "trip aborted for some reason"

\* lines 419-421: the end time of the last phase, if any, is set to t
CloseLast(phases, t) ==
  IF phases = <<>> THEN phases ELSE [phases EXCEPT ![Len(phases)].end_time = t]

\* TripPhase, of a record of the trip log; the path stands for pathfind(req)
TripPhase(rec, path) ==
  [start_time |-> rec.time, end_time |-> NoTime, path |-> path, description |-> rec.md]

\* Analytics::get_trip_phases, the loop of lines 415-434 from record k on
RECURSIVE get_trip_phases_from(_, _, _, _)
get_trip_phases_from(log, k, trip, phases) ==
  IF k > Len(log) THEN phases
  ELSE IF log[k].id # trip THEN get_trip_phases_from(log, k + 1, trip, phases)
  ELSE LET closed == CloseLast(phases, log[k].time) IN
       IF IsSentinel(log[k].md) THEN closed
       ELSE get_trip_phases_from(log, k + 1, trip,
                                 Append(closed, TripPhase(log[k], log[k].req)))

\* Analytics::get_trip_phases(trip, map)
get_trip_phases(a, trip) == get_trip_phases_from(a.trip_log, 1, trip, <<>>)

\* a BTreeMap<TripID, Vec<TripPhase>>: which trips have an entry, and the entries
NoTrips == [t \in TripIDs |-> [present |-> FALSE, phases |-> <<>>]]

\* Analytics::get_all_trip_phases, the loop of lines 440-460 from record k on
RECURSIVE get_all_trip_phases_from(_, _, _)
get_all_trip_phases_from(log, k, trips) ==
  IF k > Len(log) THEN trips
  ELSE LET id == log[k].id
           closed == CloseLast(trips[id].phases, log[k].time)
       IN get_all_trip_phases_from(log, k + 1,
            IF log[k].md = "trip finished"
            THEN [trips EXCEPT ![id] = [present |-> TRUE, phases |-> closed]]
            ELSE IF log[k].md = "trip aborted for some reason"
            THEN [trips EXCEPT ![id] = [present |-> FALSE, phases |-> <<>>]]
            ELSE [trips EXCEPT ![id] =
                    [present |-> TRUE, phases |-> Append(closed, TripPhase(log[k], NoReq))]])

\* Analytics::get_all_trip_phases()
get_all_trip_phases(a) == get_all_trip_phases_from(a.trip_log, 1, NoTrips)

\* description.starts_with("CarID(")
StartsWithCarID(md) == md \in {"CarID(1)", "CarID(2)"}

\* description.starts_with("PedestrianID(")
StartsWithPedestrianID(md) == md \in {"PedestrianID(1)", "PedestrianID(2)"}

\* lines 478-479: the driving phases
IsDriving(md) == StartsWithCarID(md)

\* lines 480-485: the overhead phases
IsOverhead(md) ==
  /\ ~StartsWithCarID(md)
  /\ \/ md = "parking somewhere else"
     \/ md = "parking on the current lane"
     \/ StartsWithPedestrianID(md)

\* analyze_parking_phases, the loop of lines 475-489 from phase k on
RECURSIVE PhaseTimes(_, _, _)
PhaseTimes(phases, k, acc) ==
  IF k > Len(phases) THEN acc
  ELSE LET dt == phases[k].end_time - phases[k].start_time IN
       PhaseTimes(phases, k + 1,
         IF IsDriving(phases[k].description)
         THEN [acc EXCEPT !.driving_time = @ + dt]
         ELSE IF IsOverhead(phases[k].description)
         THEN [acc EXCEPT !.overhead = @ + dt]
         ELSE acc)

\* analyze_parking_phases, line 470: phases.last().unwrap() of an empty Vec
UnwrapFails(trips) == \E t \in TripIDs : trips[t].present /\ trips[t].phases = <<>>

\* analyze_parking_phases, lines 469-495: the fractions added to the
\* PercentageHistogram, for the trips from id t on
RECURSIVE parking_overheads(_, _)
parking_overheads(trips, t) ==
  IF t \notin TripIDs THEN <<>>
  ELSE LET phases == trips[t].phases
           rest == parking_overheads(trips, t + 1)
       IN IF ~trips[t].present \/ phases[Len(phases)].end_time = NoTime THEN rest
          ELSE LET times == PhaseTimes(phases, 1, [driving_time |-> 0, overhead |-> 0])
               IN IF times.driving_time = 0 \/ times.overhead = 0 THEN rest
                  ELSE <<[num |-> times.overhead,
                          den |-> times.driving_time + times.overhead]>> \o rest

\* the simulation calls Analytics::all_finished_trips(now)
QueryAllFinishedTrips(now) ==
  /\ ~apanic
  /\ q' = [NoQuery EXCEPT !.op = "all_finished_trips", !.now = now,
                          !.ret = all_finished_trips(an, now)]
  /\ UNCHANGED <<an, trace, apanic, rvars, wvars>>

\* the simulation calls Analytics::get_trip_phases(trip, map)
QueryTripPhases(trip) ==
  /\ ~apanic
  /\ q' = [NoQuery EXCEPT !.op = "get_trip_phases", !.trip = trip,
                          !.ret = get_trip_phases(an, trip)]
  /\ UNCHANGED <<an, trace, apanic, rvars, wvars>>

\* the simulation calls Analytics::analyze_parking_phases()
QueryParkingPhases ==
  /\ ~apanic
  /\ LET trips == get_all_trip_phases(an) IN
     IF UnwrapFails(trips)
     THEN /\ apanic' = TRUE
          /\ q' = [NoQuery EXCEPT !.op = "analyze_parking_phases", !.panic = TRUE]
     ELSE /\ apanic' = FALSE
          /\ q' = [NoQuery EXCEPT !.op = "analyze_parking_phases",
                                  !.ret = parking_overheads(trips, 1)]
  /\ UNCHANGED <<an, trace, rvars, wvars>>

\* the trip events of the query runs
TripEvents ==
  { TripPhaseStarting(1, "req1", "CarID(1)"),
    TripPhaseStarting(1, NoReq, "PedestrianID(1)"),
    TripPhaseStarting(2, NoReq, "parking on the current lane"),
    TripPhaseStarting(2, "req2", "CarID(2)"),
    TripFinished(1, "Drive", 2), TripFinished(2, "Walk", 1),
    TripAborted(1), TripAborted(2) }

TripsInit ==
  /\ an = Analytics_new
  /\ trace = <<>>
  /\ apanic = FALSE
  /\ q = NoQuery
  /\ routers = NotInUse /\ taken = NotInUse /\ panicked = NotInUse /\ last = NotInUse
  /\ win = NotInUse /\ wadded = NotInUse /\ wlast = NotInUse

\* the trip events reach event(), and the queries are made between them
IngestTrip ==
  \E ev \in TripEvents, time \in Clock..(Clock + 1) : EventCall(ev, time)

TripsNext ==
  \/ IngestTrip
  \/ \E now \in 0..MaxEvents : QueryAllFinishedTrips(now)
  \/ \E trip \in TripIDs : QueryTripPhases(trip)
  \/ QueryParkingPhases

SpecTrips == TripsInit /\ [][TripsNext]_vars

----------------------------------------------------------------------------
(* Analytics: the throughput queries *)

\* Duration::seconds(0.1); the timestamps of the throughput runs count tenths
\* of a second
Epsilon == 1

Min(a, b) == IF a <= b THEN a ELSE b

\* a test that takes every record for the entity asked about
same_obj_any(x, obj) == TRUE

\* Analytics::throughput, the test of line 385
same_obj(x, obj) == x = obj

\* the drop-off time without the cap at now
DropOff_uncapped(last_t, window_size, now) == last_t + window_size + Epsilon

\* Analytics::throughput, line 400: the time of the drop-off sample
DropOff(last_t, window_size, now) == Min(last_t + window_size + Epsilon, now)

\* Analytics::throughput, lines 377-382: the initial point and the Window of every mode
throughput_start(window_size) ==
  [pts |-> [m \in TripModes |-> << [t |-> 0, count |-> 0] >>],
   windows |-> [m \in TripModes |-> Window_new(window_size)]]

\* Analytics::throughput, the loop of lines 384-394 from record k on
RECURSIVE throughput_scan(_, _, _, _, _)
throughput_scan(data, k, now, obj, acc) ==
  IF k > Len(data) THEN acc
  ELSE IF ~same_obj(data[k].x, obj) THEN throughput_scan(data, k + 1, now, obj, acc)
  ELSE IF data[k].time > now THEN acc
  ELSE LET m == data[k].mode
           w == Window_add(acc.windows[m], data[k].time)
       IN throughput_scan(data, k + 1, now, obj,
            [acc EXCEPT !.windows[m] = w,
                        !.pts[m] = Append(@, [t |-> data[k].time, count |-> Len(w.times)])])

\* Analytics::throughput, lines 397-407: the drop-off and the final point of one mode
throughput_finish(pts, window, now) ==
  LET t == DropOff(pts[Len(pts)].t, window.window_size, now)
      dropped == pts[Len(pts)].t # t
      w1 == IF dropped THEN Window_count(window, t) ELSE window
      pts1 == IF dropped THEN Append(pts, [t |-> t, count |-> Len(w1.times)]) ELSE pts
      w2 == Window_count(w1, now)
  IN IF pts1[Len(pts1)].t # now
     THEN Append(pts1, [t |-> now, count |-> Len(w2.times)])
     ELSE pts1

\* Analytics::throughput(now, obj, window_size, data)
throughput(now, obj, window_size, data) ==
  LET acc == throughput_scan(data, 1, now, obj, throughput_start(window_size))
  IN [m \in TripModes |-> throughput_finish(acc.pts[m], acc.windows[m], now)]

\* Analytics::throughput_road(now, road, window_size)
throughput_road(a, now, road, window_size) ==
  throughput(now, road, window_size, a.raw_per_road)

\* Analytics::throughput_intersection(now, intersection, window_size)
throughput_intersection(a, now, intersection, window_size) ==
  throughput(now, intersection, window_size, a.raw_per_intersection)

\* the record of a throughput query: its arguments and its result
ThruputQuery(op, now, obj, window_size, ret) ==
  [op |-> op, now |-> now, obj |-> obj, window_size |-> window_size,
   panic |-> FALSE, ret |-> ret]

\* the simulation calls Analytics::throughput_road(now, road, window_size); a
\* query reads the Analytics and leaves it as it is, so that one query between
\* two events stands for any number of them
QueryThroughputRoad(now, road, window_size) ==
  /\ ~apanic
  /\ q = NoQuery
  /\ q' = ThruputQuery("throughput_road", now, road, window_size,
                       throughput_road(an, now, road, window_size))
  /\ UNCHANGED <<an, trace, apanic, rvars, wvars>>

\* the simulation calls Analytics::throughput_intersection(now, intersection, window_size)
QueryThroughputIntersection(now, intersection, window_size) ==
  /\ ~apanic
  /\ q = NoQuery
  /\ q' = ThruputQuery("throughput_intersection", now, intersection, window_size,
                       throughput_intersection(an, now, intersection, window_size))
  /\ UNCHANGED <<an, trace, apanic, rvars, wvars>>

\* the events of the throughput runs: two modes on one road, a second road, a turn
ThruputEvents ==
  { AgentEntersTraversable("car", "l1"), AgentEntersTraversable("bike", "l1"),
    AgentEntersTraversable("car", "l2"), AgentEntersTraversable("ped", "t2") }

ThruputInit ==
  /\ an = Analytics_new
  /\ trace = <<>>
  /\ apanic = FALSE
  /\ q = NoQuery
  /\ routers = NotInUse /\ taken = NotInUse /\ panicked = NotInUse /\ last = NotInUse
  /\ win = NotInUse /\ wadded = NotInUse /\ wlast = NotInUse

\* agents enter lanes and turns, and the queries are made between the events
IngestThruput ==
  \E ev \in ThruputEvents, time \in Clock..(Clock + 1) : EventCall(ev, time)

ThruputNext ==
  \/ IngestThruput
  \/ \E now \in 0..MaxTime, road \in Roads, window_size \in 0..MaxWindow :
       QueryThroughputRoad(now, road, window_size)
  \/ \E now \in 0..MaxTime, i \in Intersections, window_size \in 0..MaxWindow :
       QueryThroughputIntersection(now, i, window_size)

SpecThruput == ThruputInit /\ [][ThruputNext]_vars

----------------------------------------------------------------------------
(* Analytics: the bus arrival queries *)

\* the buses, in the order of their CarIDs
BusIDs == <<"bus1", "bus2", "bus3">>
BusRoutes == {"route1", "route2"}
BusStops == {"stop1", "stop2"}

\* a BTreeMap whose values are Vecs: a key without an entry holds the empty Vec
NoArrivals == [b \in { BusIDs[k] : k \in 1..Len(BusIDs) } |-> <<>>]
NoDelays == [s \in BusStops |-> <<>>]

\* Analytics::bus_arrivals, the loop of lines 246-256 from record k on: the
\* arrivals of route r at a time <= now, per bus
RECURSIVE per_bus_from(_, _, _, _, _)
per_bus_from(log, k, now, r, per_bus) ==
  IF k > Len(log) \/ past(log[k].time, now) THEN per_bus
  ELSE per_bus_from(log, k + 1, now, r,
         IF log[k].route = r
         THEN [per_bus EXCEPT ![log[k].car] = Append(@, [t |-> log[k].time,
                                                         stop |-> log[k].stop])]
         ELSE per_bus)

\* Analytics::bus_arrivals, lines 259-264: events.windows(2) from pair k on;
\* the histogram of the second arrival's stop receives the time between the two
RECURSIVE add_delays(_, _, _)
add_delays(delay_to_stop, events, k) ==
  IF k >= Len(events) THEN delay_to_stop
  ELSE add_delays([delay_to_stop EXCEPT ![events[k + 1].stop] =
                     Append(@, events[k + 1].t - events[k].t)],
                  events, k + 1)

\* Analytics::bus_arrivals_over_time, lines 290-295: the same pairs, kept
\* with the time of the second arrival
RECURSIVE add_timed_delays(_, _, _)
add_timed_delays(delays_to_stop, events, k) ==
  IF k >= Len(events) THEN delays_to_stop
  ELSE add_timed_delays([delays_to_stop EXCEPT ![events[k + 1].stop] =
                           Append(@, [t |-> events[k + 1].t,
                                      delay |-> events[k + 1].t - events[k].t])],
                        events, k + 1)

\* Analytics::bus_arrivals, the loop of lines 258-265 from the b-th bus on
RECURSIVE delay_to_stop_from(_, _, _)
delay_to_stop_from(per_bus, b, delay_to_stop) ==
  IF b > Len(BusIDs) THEN delay_to_stop
  ELSE delay_to_stop_from(per_bus, b + 1, add_delays(delay_to_stop, per_bus[BusIDs[b]], 1))

\* Analytics::bus_arrivals_over_time, the loop of lines 289-296 from the b-th bus on
RECURSIVE delays_to_stop_from(_, _, _)
delays_to_stop_from(per_bus, b, delays_to_stop) ==
  IF b > Len(BusIDs) THEN delays_to_stop
  ELSE delays_to_stop_from(per_bus, b + 1,
                           add_timed_delays(delays_to_stop, per_bus[BusIDs[b]], 1))

\* Analytics::bus_arrivals(now, r)
bus_arrivals(a, now, r) ==
  delay_to_stop_from(per_bus_from(a.bus_arrivals, 1, now, r, NoArrivals), 1, NoDelays)

\* Analytics::bus_arrivals_over_time(now, r)
bus_arrivals_over_time(a, now, r) ==
  delays_to_stop_from(per_bus_from(a.bus_arrivals, 1, now, r, NoArrivals), 1, NoDelays)

\* the record of a bus query: its arguments and its result
BusQuery(op, now, r, ret) ==
  [op |-> op, now |-> now, route |-> r, panic |-> FALSE, ret |-> ret]

\* the simulation calls Analytics::bus_arrivals(now, r), once between two events
QueryBusArrivals(now, r) ==
  /\ ~apanic
  /\ q = NoQuery
  /\ q' = BusQuery("bus_arrivals", now, r, bus_arrivals(an, now, r))
  /\ UNCHANGED <<an, trace, apanic, rvars, wvars>>

\* the simulation calls Analytics::bus_arrivals_over_time(now, r), once between two events
QueryBusArrivalsOverTime(now, r) ==
  /\ ~apanic
  /\ q = NoQuery
  /\ q' = BusQuery("bus_arrivals_over_time", now, r, bus_arrivals_over_time(an, now, r))
  /\ UNCHANGED <<an, trace, apanic, rvars, wvars>>

\* the events of the bus runs: one bus at two stops, a second bus of the same
\* route, a bus of another route
BusEvents ==
  { BusArrivedAtStop("bus1", "route1", "stop1"), BusArrivedAtStop("bus1", "route1", "stop2"),
    BusArrivedAtStop("bus2", "route1", "stop1"), BusArrivedAtStop("bus3", "route2", "stop1") }

BusInit ==
  /\ an = Analytics_new
  /\ trace = <<>>
  /\ apanic = FALSE
  /\ q = NoQuery
  /\ routers = NotInUse /\ taken = NotInUse /\ panicked = NotInUse /\ last = NotInUse
  /\ win = NotInUse /\ wadded = NotInUse /\ wlast = NotInUse

\* buses arrive at stops, and the queries are made between the events
IngestBus ==
  \E ev \in BusEvents, time \in Clock..(Clock + 1) : EventCall(ev, time)

BusNext ==
  \/ IngestBus
  \/ \E now \in 0..MaxEvents, r \in BusRoutes : QueryBusArrivals(now, r)
  \/ \E now \in 0..MaxEvents, r \in BusRoutes : QueryBusArrivalsOverTime(now, r)

SpecBus == BusInit /\ [][BusNext]_vars

----------------------------------------------------------------------------
(* Analytics: the comparison of finished trips with a baseline run *)

\* a BTreeMap<TripID, Duration>: which trips have an entry, and the entries
NoDurations == [t \in TripIDs |-> [present |-> FALSE, dt |-> 0]]

\* a filter that takes the aborted records too
counts_as_finished_any_mode(rec, now) == rec.time <= now

\* Analytics::finished_trip_deltas, the filter of lines 220 and 231
counts_as_finished(rec, now) == rec.time <= now /\ rec.mode # NoMode

\* Analytics::finished_trip_deltas, lines 216-226 and 227-237: the map collected
\* from the records from the k-th on; a later record of an id replaces an earlier
RECURSIVE finished_by_id(_, _, _, _)
finished_by_id(log, k, now, durations) ==
  IF k > Len(log) THEN durations
  ELSE finished_by_id(log, k + 1, now,
         IF counts_as_finished(log[k], now)
         THEN [durations EXCEPT ![log[k].id] = [present |-> TRUE, dt |-> log[k].dt]]
         ELSE durations)

\* Analytics::finished_trip_deltas, lines 239-241: from trip id t on, in the
\* order of the ids
RECURSIVE deltas_from(_, _, _)
deltas_from(a, b, t) ==
  IF t \notin TripIDs THEN <<>>
  ELSE (IF a[t].present /\ b[t].present THEN << b[t].dt - a[t].dt >> ELSE <<>>)
       \o deltas_from(a, b, t + 1)

\* Analytics::finished_trip_deltas(now, baseline)
finished_trip_deltas(a, now, baseline) ==
  deltas_from(finished_by_id(a.finished_trips, 1, now, NoDurations),
              finished_by_id(baseline.finished_trips, 1, now, NoDurations), 1)

\* the Analytics of a run that ingested the events of run from the k-th on
RECURSIVE Ingested(_, _, _)
Ingested(a, run, k) ==
  IF k > Len(run) THEN a
  ELSE Ingested((CHOOSE o \in event(a, run[k].ev, run[k].time) : TRUE).an, run, k + 1)

\* the baseline runs: the trip-finished and trip-aborted events of an earlier
\* simulation of the same trips, in time order, every trip ending at most once
BaselineRuns ==
  { <<>>,
    << [ev |-> TripFinished(1, "Drive", 3), time |-> 1] >>,
    << [ev |-> TripFinished(1, "Drive", 3), time |-> 1],
       [ev |-> TripFinished(2, "Walk", 1), time |-> 2] >>,
    << [ev |-> TripAborted(1), time |-> 1],
       [ev |-> TripFinished(2, "Walk", 1), time |-> 2] >>,
    << [ev |-> TripFinished(2, "Walk", 2), time |-> 0],
       [ev |-> TripAborted(1), time |-> 0] >> }

\* the record of a comparison: its arguments and its result
DeltaQuery(now, run, ret) ==
  [op |-> "finished_trip_deltas", now |-> now, baseline |-> run, panic |-> FALSE,
   ret |-> ret]

\* the simulation calls Analytics::finished_trip_deltas(now, baseline) with the
\* Analytics of a baseline run, once between two events
QueryFinishedTripDeltas(now, run) ==
  /\ ~apanic
  /\ q = NoQuery
  /\ q' = DeltaQuery(now, run, finished_trip_deltas(an, now, Ingested(Analytics_new, run, 1)))
  /\ UNCHANGED <<an, trace, apanic, rvars, wvars>>

\* the trip ends of the compared run
DeltaEvents ==
  { TripFinished(1, "Drive", 2), TripFinished(1, "Drive", 4), TripAborted(1),
    TripFinished(2, "Walk", 1), TripAborted(2) }

\* the trip of these events has ended in this run
Ended(a, id) == \E k \in 1..Len(a.finished_trips) : a.finished_trips[k].id = id

DeltaInit ==
  /\ an = Analytics_new
  /\ trace = <<>>
  /\ apanic = FALSE
  /\ q = NoQuery
  /\ routers = NotInUse /\ taken = NotInUse /\ panicked = NotInUse /\ last = NotInUse
  /\ win = NotInUse /\ wadded = NotInUse /\ wlast = NotInUse

\* a trip of the compared run finishes or is aborted, once
IngestTripEnd ==
  \E ev \in DeltaEvents, time \in Clock..(Clock + 1) :
    /\ ~Ended(an, ev.id)
    /\ EventCall(ev, time)

DeltaNext ==
  \/ IngestTripEnd
  \/ \E now \in 0..MaxEvents, run \in BaselineRuns : QueryFinishedTripDeltas(now, run)

SpecDeltas == DeltaInit /\ [][DeltaNext]_vars

----------------------------------------------------------------------------
(* Analytics: the bucketized intersection delays *)

\* bucket sizes range over 1..MaxBucket
MaxBucket == 2

\* Analytics::intersection_delays_bucketized, the loop of lines 539-548 from
\* record k on
RECURSIVE bucketize_from(_, _, _, _, _, _)
bucketize_from(list, k, now, bucket, max_this_bucket, results) ==
  IF k > Len(list) \/ list[k].time > now THEN results
  ELSE LET advance_bucket == list[k].time > max_this_bucket
           max1 == IF advance_bucket THEN Min(now, max_this_bucket + bucket)
                   ELSE max_this_bucket
           results1 == IF advance_bucket
                       THEN Append(results, [t |-> max1, delays |-> DurationHistogram_new])
                       ELSE results
       IN bucketize_from(list, k + 1, now, bucket, max1,
            [results1 EXCEPT ![Len(results1)].delays = Append(@, list[k].dt)])

\* Analytics::intersection_delays_bucketized(now, i, bucket)
intersection_delays_bucketized(a, now, i, bucket) ==
  LET max_this_bucket == Min(now, 0 + bucket)
  IN bucketize_from(a.intersection_delays[i], 1, now, bucket, max_this_bucket,
                    << [t |-> 0, delays |-> DurationHistogram_new],
                       [t |-> max_this_bucket, delays |-> DurationHistogram_new] >>)

\* the record of a bucketized query: its arguments and its result
BucketQuery(now, i, bucket, ret) ==
  [op |-> "intersection_delays_bucketized", now |-> now, i |-> i, bucket |-> bucket,
   panic |-> FALSE, ret |-> ret]

\* the simulation calls Analytics::intersection_delays_bucketized(now, i, bucket),
\* once between two events
QueryDelaysBucketized(now, i, bucket) ==
  /\ ~apanic
  /\ q = NoQuery
  /\ q' = BucketQuery(now, i, bucket, intersection_delays_bucketized(an, now, i, bucket))
  /\ UNCHANGED <<an, trace, apanic, rvars, wvars>>

\* the delays measured in the delay runs
DelayEvents == { IntersectionDelayMeasured("i1", 1), IntersectionDelayMeasured("i1", 2) }

DelaysInit ==
  /\ an = Analytics_new
  /\ trace = <<>>
  /\ apanic = FALSE
  /\ q = NoQuery
  /\ routers = NotInUse /\ taken = NotInUse /\ panicked = NotInUse /\ last = NotInUse
  /\ win = NotInUse /\ wadded = NotInUse /\ wlast = NotInUse

\* delays are measured up to two ticks apart, and the queries are made between them
IngestDelay ==
  \E ev \in DelayEvents, time \in Clock..(Clock + 2) : EventCall(ev, time)

DelaysNext ==
  \/ IngestDelay
  \/ \E now \in 0..MaxTime, i \in Intersections, bucket \in 1..MaxBucket :
       QueryDelaysBucketized(now, i, bucket)

SpecDelays == DelaysInit /\ [][DelaysNext]_vars

----------------------------------------------------------------------------
(* Properties *)

\* the most recent step evaluated maybe_handle_end, directly or inside advance
Evaluated == last.op = "maybe_handle_end" \/ (last.op = "advance" /\ last.sideEval)

\* the distance that evaluation was made at
Front == IF last.op = "advance" THEN 0 ELSE last.dist

\* the most recent step evaluated maybe_handle_end on a ParkNearBuilding Router
EvaluatedParking ==
  Evaluated /\ routers[last.r].goal.type = "ParkNearBuilding"

\* C1: when maybe_handle_end is called on a ParkNearBuilding Router whose
\* cached spot is no longer free, the call runs the parking-spot search again
\* and does not hand out the stale spot.
C1_StaleSpotIsReResolved ==
  (EvaluatedParking /\ ~panicked /\ last.old # NoCache /\ ~is_free(last.old.spot, taken))
    => /\ last.searched
       /\ last.ret # Ret("StartParking", last.old.spot)

\* C2: while the cached spot is still free, a maybe_handle_end call at a
\* distance other than the cached one leaves the cached (spot, distance) pair
\* unchanged and does not call get_first_free_spot.
C2_FreeSpotIsKept ==
  (EvaluatedParking /\ ~panicked /\ last.old # NoCache /\ is_free(last.old.spot, taken)
     /\ Front # last.old.dist)
    => /\ routers[last.r].goal.spot = last.old
       /\ ~last.queried

\* C3: with several Routers sharing the occupancy collaborator, under every
\* interleaving of their calls and of the claims of other vehicles,
\* maybe_handle_end returns StartParking(s) only for a spot s that is free at
\* the moment of the call.
C3_StartParkingOnlyInFreeSpot ==
  (Evaluated /\ last.ret.kind = "StartParking") => is_free(last.ret.spot, taken)

\* C4: stop_suddenly fails fatally exactly when end_dist >= the length of the
\* last segment of the route; a Router it returns has goal
\* StopSuddenly{end_dist}, end_dist below that length, and the given route as
\* its path.
C4_StopSuddenlyConstruction ==
  last.op = "stop_suddenly" =>
    /\ panicked <=> (last.dist >= Length(last.route[Len(last.route)]))
    /\ ~panicked =>
         LET rt == routers[last.r] IN
         /\ rt.st = "alive"
         /\ rt.goal.type = "StopSuddenly"
         /\ rt.goal.end_dist = last.dist
         /\ rt.goal.end_dist < Length(rt.path[Len(rt.path)])
         /\ rt.path = last.route

C4_Witness ==
  /\ last.op = "stop_suddenly"
  /\ ~panicked
  /\ Len(routers[last.r].path) = 3
  /\ routers[last.r].goal.end_dist = Length(routers[last.r].path[3]) - 1

\* C5: when a ParkNearBuilding Router runs the spot search and the search
\* fails (no parking lane reachable, or no free spot on it), that same
\* maybe_handle_end call returns Vanish, never "no action yet" or
\* StartParking, and the cached spot is left as it was.
C5_FailedSearchVanishes ==
  (EvaluatedParking /\ last.searched /\ ~last.found)
    => /\ ~panicked
       /\ last.ret = Ret("Vanish", NoSpot)
       /\ routers[last.r].goal.spot = last.old

C5_Witness ==
  /\ EvaluatedParking
  /\ last.op = "maybe_handle_end"
  /\ last.searched
  /\ last.queried
  /\ ~last.found
  /\ last.ret.kind = "Vanish"

\* C6: after a successful resolution, or a reuse of the cached spot, with
\* (s, d) the cached pair, maybe_handle_end(front) returns StartParking(s)
\* when front = d and "no action yet" for every other front.
C6_StartParkingAtCachedDistance ==
  (EvaluatedParking /\ ~panicked /\ (last.searched => last.found))
    => LET c == routers[last.r].goal.spot IN
       /\ c # NoCache
       /\ IF Front = c.dist
          THEN last.ret = Ret("StartParking", c.spot)
          ELSE last.ret = Ret("None", NoSpot)

C6_Witness ==
  /\ EvaluatedParking
  /\ last.op = "maybe_handle_end"
  /\ last.found
  /\ last.dist = 2
  /\ last.ret = Ret("StartParking", "s2")

\* C7: on a Router built from n >= 2 segments, each of the first n-1 advance
\* calls returns the segment that was at the front before it; maybe_handle_end
\* is not evaluated by the first n-2 of them and is evaluated exactly once, at
\* distance zero, by call n-1, which leaves exactly one segment.
C7_AdvanceToLastStep ==
  [][ \A r \in RouterIDs :
        ( /\ last'.op = "advance"
          /\ last'.r = r
          /\ routers[r].st = "alive"
          /\ Len(routers[r].route) >= 2
          /\ routers[r].advances + 1 <= Len(routers[r].route) - 1 )
        => LET n == Len(routers[r].route)
               b == routers'[r]
           IN /\ ~panicked'
              /\ last'.seg = routers[r].path[1]
              /\ b.advances = routers[r].advances + 1
              /\ Len(b.path) = n - b.advances
              /\ (b.advances < n - 1) => (~last'.sideEval /\ b.evals = 0)
              /\ (b.advances = n - 1) =>
                   /\ Len(b.path) = 1
                   /\ last'.sideEval
                   /\ b.evals = 1
                   /\ (b.goal.type = "StopSuddenly") =>
                        (last'.ret.kind = "Vanish" <=> b.goal.end_dist = 0)
    ]_vars

C7_Witness ==
  \E r \in RouterIDs :
    /\ last.op = "advance"
    /\ last.r = r
    /\ Len(routers[r].route) = 3
    /\ routers[r].advances = 2
    /\ Len(routers[r].path) = 1
    /\ routers[r].evals = 1

\* C8 as claimed: after any sequence of advance and maybe_handle_end calls on
\* a Router built from a non-empty route, the path is non-empty and its last
\* element is the terminal segment of the original route.
C8_PathNeverEmpty ==
  \A r \in RouterIDs :
    routers[r].st = "alive" =>
      /\ routers[r].path # <<>>
      /\ routers[r].path[Len(routers[r].path)] = routers[r].route[Len(routers[r].route)]

\* C8 amended: as long as at most n-1 advance calls were made on a Router
\* built from n >= 1 segments (advance is not called on the final segment),
\* the path is non-empty, its first element is the segment after the ones
\* advanced past and its last element is the terminal segment of the original
\* route; the n-th advance leaves the path empty.
C8_PathWhileNotPastEnd ==
  \A r \in RouterIDs :
    routers[r].st = "alive" =>
      LET rt == routers[r]
          n == Len(rt.route)
      IN /\ n >= 1
         /\ rt.advances <= n
         /\ (rt.advances <= n - 1) =>
              /\ rt.path # <<>>
              /\ rt.path[1] = rt.route[rt.advances + 1]
              /\ rt.path[Len(rt.path)] = rt.route[n]
         /\ (rt.advances = n) => rt.path = <<>>

C8_Witness ==
  \E r \in RouterIDs :
    /\ routers[r].st = "alive"
    /\ Len(routers[r].route) = 3
    /\ routers[r].advances = 2
    /\ last.op = "maybe_handle_end"
    /\ last.r = r

\* C9: on a StopSuddenly Router, maybe_handle_end(front) returns Vanish when
\* front = end_dist and "no action yet" otherwise, whatever path remains; it
\* does not fail, consults no parking collaborator and changes no Router
\* state.
C9_StopSuddenlyEnd ==
  [][ \A r \in RouterIDs :
        ( /\ routers[r].st = "alive"
          /\ routers[r].goal.type = "StopSuddenly"
          /\ last'.r = r )
        => /\ (last'.op = "maybe_handle_end") =>
                /\ ~panicked'
                /\ last'.ret = IF last'.dist = routers[r].goal.end_dist
                               THEN Ret("Vanish", NoSpot) ELSE Ret("None", NoSpot)
                /\ ~last'.searched
                /\ ~last'.queried
                /\ routers' = routers
           /\ (last'.op = "advance" /\ last'.sideEval) =>
                /\ ~panicked'
                /\ last'.ret = IF 0 = routers[r].goal.end_dist
                               THEN Ret("Vanish", NoSpot) ELSE Ret("None", NoSpot)
                /\ ~last'.searched
                /\ ~last'.queried
                /\ routers'[r].goal = routers[r].goal
    ]_vars

C9_Witness ==
  /\ last.op = "maybe_handle_end"
  /\ routers[last.r].goal.type = "StopSuddenly"
  /\ Len(routers[last.r].route) = 1
  /\ routers[last.r].path = <<>>
  /\ last.dist = 2
  /\ last.ret.kind = "Vanish"

\* C10: across any sequence of operations on a constructed Router the goal
\* variant, a StopSuddenly end_dist and a ParkNearBuilding target never
\* change, the cached spot never goes from resolved back to empty, and the
\* path changes only in advance, which removes exactly its front element.
C10_GoalFixedPathShrinks ==
  [][ \A r \in RouterIDs :
        routers[r].st = "alive" =>
          LET a == routers[r]
              b == routers'[r]
          IN /\ b.st = "alive"
             /\ b.goal.type = a.goal.type
             /\ b.goal.end_dist = a.goal.end_dist
             /\ b.goal.target = a.goal.target
             /\ (a.goal.spot # NoCache) => (b.goal.spot # NoCache)
             /\ (b.path # a.path) =>
                  /\ last'.op = "advance"
                  /\ last'.r = r
                  /\ a.path # <<>>
                  /\ b.path = Tail(a.path)
    ]_vars

C10_Witness ==
  \E r \in RouterIDs :
    /\ last.op = "advance"
    /\ last.r = r
    /\ routers[r].goal.type = "ParkNearBuilding"
    /\ routers[r].goal.spot # NoCache
    /\ Len(routers[r].route) = 3
    /\ Len(routers[r].path) = 1

\* C11: get_end_dist fails fatally when more or fewer than one segment
\* remains, and on the final segment when the goal is ParkNearBuilding with no
\* resolved spot; otherwise it returns end_dist for StopSuddenly and the
\* cached spot's distance for ParkNearBuilding; it never changes the Router.
C11_GetEndDist ==
  [][ \A r \in RouterIDs :
        (last'.op = "get_end_dist" /\ last'.r = r) =>
          LET rt == routers[r] IN
          /\ routers' = routers
          /\ taken' = taken
          /\ panicked' <=> \/ Len(rt.path) # 1
                           \/ (rt.goal.type = "ParkNearBuilding" /\ rt.goal.spot = NoCache)
          /\ ~panicked' =>
               last'.dist = IF rt.goal.type = "StopSuddenly"
                            THEN rt.goal.end_dist ELSE rt.goal.spot.dist
    ]_vars

C11_Witness ==
  /\ last.op = "get_end_dist"
  /\ ~panicked
  /\ routers[last.r].goal.type = "ParkNearBuilding"
  /\ Len(routers[last.r].route) = 3
  /\ routers[last.r].goal.spot.spot = "s2"
  /\ last.dist = 2

\* C12: validate_start_dist(start_dist) fails fatally exactly when the goal is
\* StopSuddenly, exactly one segment remains and start_dist >= end_dist; in
\* every other case it returns and leaves the Router unchanged.
C12_ValidateStartDist ==
  [][ \A r \in RouterIDs :
        (last'.op = "validate_start_dist" /\ last'.r = r) =>
          LET rt == routers[r] IN
          /\ routers' = routers
          /\ panicked' <=> /\ rt.goal.type = "StopSuddenly"
                           /\ Len(rt.path) = 1
                           /\ last'.dist >= rt.goal.end_dist
    ]_vars

C12_Witness ==
  /\ last.op = "validate_start_dist"
  /\ panicked
  /\ routers[last.r].goal.type = "StopSuddenly"
  /\ Len(routers[last.r].route) = 3
  /\ last.dist = routers[last.r].goal.end_dist

\* C13: with timestamps added and queries made at non-decreasing times, every
\* add(t) and count(t) of a Window of length W returns the number of
\* timestamps ts added so far with t - ts <= W, as a re-scan of all additions
\* gives.
C13_WindowCountsLikeRescan ==
  wlast.op \in {"add", "count"} =>
    wlast.ret = Cardinality({ i \in 1..Len(wadded) : wlast.t - wadded[i] <= win.window_size })

C13_Witness ==
  /\ wlast.op = "count"
  /\ Len(wadded) = 3
  /\ wlast.ret = 1
  /\ win.window_size = 1

\* C14: after every add or count at time t the retained queue is ordered
\* oldest first and every retained timestamp ts satisfies
\* t - ts <= window_size.
C14_WindowRetainsOnlyRecent ==
  wlast.op \in {"add", "count"} =>
    /\ \A i \in 1..Len(win.times) : wlast.t - win.times[i] <= win.window_size
    /\ \A i \in 1..(Len(win.times) - 1) : win.times[i] <= win.times[i + 1]

C14_Witness ==
  /\ wlast.op = "count"
  /\ Len(wadded) = 3
  /\ Len(win.times) = 1
  /\ wadded[1] = wadded[2]
  /\ wlast.t - wadded[1] > win.window_size

\* s is a prefix of t
IsPrefix(s, t) == Len(s) <= Len(t) /\ SubSeq(t, 1, Len(s)) = s

\* the records of a log are in non-decreasing time order
TimeOrdered(log) == \A k \in 1..(Len(log) - 1) : log[k].time <= log[k + 1].time

\* the logs of an Analytics instance, the per-intersection delay lists apart
SeqLogs(a) == <<a.raw_per_road, a.raw_per_intersection, a.bus_arrivals,
                a.bus_passengers_waiting, a.finished_trips, a.trip_log>>

\* C15: with ingestion disabled (record_anything = false, as Default gives),
\* Analytics::event leaves every field unchanged for every event kind: no log
\* grows, no counter changes, the expectation queue is not popped, and
\* ingestion stays disabled.
C15_DisabledIngestionIsNoOp ==
  [][ (an.record_anything = FALSE) => (an' = an) ]_vars

C15_Witness ==
  /\ an.record_anything = FALSE
  /\ Len(trace) = 3
  /\ an.test_expectations # <<>>
  /\ trace[1].ev = Head(an.test_expectations)
  /\ trace[2].ev.kind = "TripFinished"
  /\ trace[3].ev.kind = "PathAmended"

\* C16: under event calls with non-decreasing timestamps every log (raw per
\* road, raw per intersection, bus arrivals, passengers waiting, finished
\* trips, trip log, each intersection's delays) stays sorted by time, and each
\* call only appends: the previous content of every log remains a prefix.
C16_LogsAppendOnlyInTimeOrder ==
  [][ /\ \A k \in 1..Len(SeqLogs(an)) :
           /\ IsPrefix(SeqLogs(an)[k], SeqLogs(an')[k])
           /\ TimeOrdered(SeqLogs(an')[k])
      /\ \A i \in Intersections :
           /\ IsPrefix(an.intersection_delays[i], an'.intersection_delays[i])
           /\ TimeOrdered(an'.intersection_delays[i])
    ]_vars

C16_Witness ==
  /\ ~apanic
  /\ Len(an.trip_log) = 2
  /\ an.trip_log[1].time < an.trip_log[2].time
  /\ Len(an.finished_trips) = 1
  /\ Len(an.intersection_delays["i1"]) = 1

\* the movement steps mapped to turn group g in the path-amended routes ingested
DemandIncrements(g) ==
  Cardinality({ kj \in (1..Len(trace)) \X (1..MaxPathLen) :
                  LET ev == trace[kj[1]].ev IN
                  /\ ev.kind = "PathAmended"
                  /\ kj[2] <= Len(ev.path)
                  /\ ev.path[kj[2]] \in Turns
                  /\ get_turn_group(ev.path[kj[2]]) = g })

\* the agent-entered-turn events ingested whose movement maps to turn group g
DemandDecrements(g) ==
  Cardinality({ k \in 1..Len(trace) :
                  LET ev == trace[k].ev IN
                  /\ ev.kind = "AgentEntersTraversable"
                  /\ ev.to \in Turns
                  /\ get_turn_group(ev.to) = g })

\* C17: for every turn group g and every event sequence the demand counter of
\* g equals the movement steps mapped to g in ingested path-amended routes
\* minus the ingested agent-entered-turn events mapped to g, a signed value
\* that may be negative.
C17_DemandIsSignedDifference ==
  (an.record_anything = TRUE) =>
    /\ ~apanic
    /\ \A g \in TurnGroups :
         /\ an.demand[g].wraps = 0
         /\ an.demand[g].off = DemandIncrements(g) - DemandDecrements(g)

\* the events of one kind ingested at a time <= now, in order
IngestedUpTo(kind, now) ==
  LET Test(e) == e.ev.kind = kind /\ e.time <= now IN SelectSeq(trace, Test)

\* the durations of the trip-finished events of mode m ingested at a time <= now
FinishedDurations(m, now) ==
  LET Test(e) == e.ev.kind = "TripFinished" /\ e.ev.mode = m /\ e.time <= now
      evs == SelectSeq(trace, Test)
  IN [k \in 1..Len(evs) |-> evs[k].ev.dt]

\* C18: after trip-finished and trip-aborted events ingested in time order,
\* all_finished_trips(now) reports, over the records with time <= now: per
\* mode the trip-finished events of that mode, overall as many as the modes
\* together, and num_aborted trip-aborted events; an aborted trip is recorded
\* with no mode and duration zero and is in no duration distribution.
C18_AllFinishedTrips ==
  /\ \A k \in 1..Len(an.finished_trips) :
       (an.finished_trips[k].mode = NoMode) => (an.finished_trips[k].dt = 0)
  /\ Cardinality({ k \in 1..Len(an.finished_trips) : an.finished_trips[k].mode = NoMode })
       = Len(IngestedUpTo("TripAborted", MaxEvents))
  /\ (q.op = "all_finished_trips") =>
       /\ \A m \in TripModes : q.ret.per_mode[m] = FinishedDurations(m, q.now)
       /\ Len(q.ret.all) = Len(q.ret.per_mode["Walk"]) + Len(q.ret.per_mode["Bike"])
                           + Len(q.ret.per_mode["Transit"]) + Len(q.ret.per_mode["Drive"])
       /\ Len(q.ret.all) = Len(IngestedUpTo("TripFinished", q.now))
       /\ q.ret.num_aborted = Len(IngestedUpTo("TripAborted", q.now))

C18_Witness ==
  /\ q.op = "all_finished_trips"
  /\ Len(trace) = 3
  /\ q.now = 1
  /\ trace[3].time = 2
  /\ Len(q.ret.per_mode["Drive"]) = 1
  /\ q.ret.num_aborted = 1
  /\ Len(an.finished_trips) = 3

\* the records of one trip in the trip log, as ingested: its phase starts and
\* its finished / aborted sentinels, in order
TripRecords(trip) ==
  LET Test(e) == /\ e.ev.kind \in {"TripPhaseStarting", "TripFinished", "TripAborted"}
                 /\ e.ev.id = trip
  IN SelectSeq(trace, Test)

\* how many records of a trip precede its first sentinel
BeforeFirstSentinel(recs) ==
  LET sentinels == { k \in 1..Len(recs) : recs[k].ev.kind # "TripPhaseStarting" } IN
  IF sentinels = {} THEN Len(recs)
  ELSE (CHOOSE k \in sentinels : \A j \in sentinels : k <= j) - 1

\* C19: get_trip_phases(trip) returns, in log order, one phase per
\* trip-phase-starting record of the trip that precedes the trip's first
\* finished / aborted sentinel; a phase ends at the time of the trip's next
\* record (the sentinel included), and the last phase has no end time exactly
\* when the trip has no later record; other trips' records change nothing.
C19_TripPhases ==
  (q.op = "get_trip_phases") =>
    LET recs == TripRecords(q.trip)
        n == BeforeFirstSentinel(recs)
    IN /\ Len(q.ret) = n
       /\ \A k \in 1..n :
            /\ q.ret[k].start_time = recs[k].time
            /\ q.ret[k].description = recs[k].ev.md
            /\ q.ret[k].end_time = IF k < Len(recs) THEN recs[k + 1].time ELSE NoTime

C19_Witness ==
  /\ q.op = "get_trip_phases"
  /\ q.trip = 1
  /\ Len(trace) = 3
  /\ Len(q.ret) = 2
  /\ q.ret[1].end_time = 1
  /\ q.ret[2].end_time = 2
  /\ trace[3].ev.kind = "TripAborted"

\* C20: in every Analytics state reached by ingesting events in time order
\* every read query completes without a fatal error, also when data is
\* absent, such as for a trip whose only record is a finished / aborted
\* sentinel.
C20_ReadQueriesNeverFail ==
  (q.op # "none") => ~q.panic

\* the most recent call is a throughput query
IsThruput == q.op \in {"throughput_road", "throughput_intersection"}

\* the times of the ingested events of mode m entering the entity asked about
\* at a time <= now, in order
EntryTimes(m) ==
  LET Test(e) == /\ e.ev.kind = "AgentEntersTraversable"
                 /\ IF q.op = "throughput_road"
                    THEN e.ev.to \in Lanes /\ LaneParent(e.ev.to) = q.obj
                    ELSE e.ev.to \in Turns /\ TurnParent(e.ev.to) = q.obj
                 /\ AgentMode(e.ev.agent) = m
                 /\ e.time <= q.now
      evs == SelectSeq(trace, Test)
  IN [k \in 1..Len(evs) |-> evs[k].time]

\* the (t, count) pairs of adding the times from the k-th on to the Window w
RECURSIVE Replay(_, _, _)
Replay(times, k, w) ==
  IF k > Len(times) THEN <<>>
  ELSE LET w1 == Window_add(w, times[k])
       IN << [t |-> times[k], count |-> Len(w1.times)] >> \o Replay(times, k + 1, w1)

\* C21: for an entity X, window W and now = T, the per-event samples of the
\* throughput query for each mode are, in order, the (t, count) pairs of
\* adding to a fresh Window of length W exactly the events of X of that mode
\* ingested at a time <= T; events of other entities or modes change nothing.
C21_ThroughputReplaysWindow ==
  IsThruput =>
    \A m \in TripModes :
      LET times == EntryTimes(m)
          pts == q.ret[m]
      IN /\ Len(pts) >= Len(times) + 1
         /\ pts[1] = [t |-> 0, count |-> 0]
         /\ SubSeq(pts, 2, Len(times) + 1) = Replay(times, 1, Window_new(q.window_size))

C21_Witness ==
  /\ q.op = "throughput_road"
  /\ q.obj = "r1"
  /\ q.window_size = 1
  /\ q.now = 2
  /\ Len(trace) = 3
  /\ trace[2].ev = AgentEntersTraversable("car", "l2")
  /\ q.ret["Drive"] = << [t |-> 0, count |-> 0], [t |-> 0, count |-> 1],
                         [t |-> 2, count |-> 1] >>

\* C22: for every mode, also one with no events, the samples of the
\* throughput query have non-decreasing times, contain a sample at
\* min(last event time + W + epsilon, now) whose count is 0 when that time is
\* earlier than now, and end with a sample at exactly now whose count is the
\* number of the mode's events for the entity within W of now.
C22_ThroughputDropOffAndFinal ==
  IsThruput =>
    \A m \in TripModes :
      LET times == EntryTimes(m)
          pts == q.ret[m]
          last_t == IF times = <<>> THEN 0 ELSE times[Len(times)]
          drop == Min(last_t + q.window_size + Epsilon, q.now)
          within == Cardinality({ k \in 1..Len(times) : q.now - times[k] <= q.window_size })
      IN /\ \A k \in 1..(Len(pts) - 1) : pts[k].t <= pts[k + 1].t
         /\ \E k \in 1..Len(pts) : pts[k].t = drop /\ (drop < q.now => pts[k].count = 0)
         /\ pts[Len(pts)].t = q.now
         /\ pts[Len(pts)].count = within

C22_Witness ==
  /\ q.op = "throughput_road"
  /\ q.window_size = 1
  /\ q.now = 4
  /\ q.ret["Drive"] = << [t |-> 0, count |-> 0], [t |-> 0, count |-> 1],
                         [t |-> 1, count |-> 2], [t |-> 3, count |-> 0],
                         [t |-> 4, count |-> 0] >>
  /\ q.ret["Walk"] = << [t |-> 0, count |-> 0], [t |-> 2, count |-> 0],
                        [t |-> 4, count |-> 0] >>

\* the times at which bus b of route r arrived at stop s, up to now, in order
ArrivalsAt(b, r, s, now) ==
  LET Test(e) == /\ e.ev.kind = "BusArrivedAtStop"
                 /\ e.ev.bus = b /\ e.ev.route = r /\ e.ev.stop = s
                 /\ e.time <= now
      evs == SelectSeq(trace, Test)
  IN [k \in 1..Len(evs) |-> evs[k].time]

\* how many gaps of length d lie between successive arrivals of one bus of
\* route r at stop s
SameStopGaps(r, s, now, d) ==
  Cardinality({ x \in { BusIDs[k] : k \in 1..Len(BusIDs) } \X (1..MaxEvents) :
                  LET times == ArrivalsAt(x[1], r, s, now) IN
                  x[2] < Len(times) /\ times[x[2] + 1] - times[x[2]] = d })

\* how many times the value d occurs in a sequence
Occurrences(seq, d) == Cardinality({ k \in 1..Len(seq) : seq[k] = d })

\* C23: bus_arrivals(now, r) records, for each stop, exactly the gaps between
\* consecutive arrivals of the same bus at the same stop: every duration
\* under stop S is the time between two successive arrivals of one bus of
\* route r at S, both at a time <= now.
C23_BusArrivalsSameStopGaps ==
  (q.op = "bus_arrivals") =>
    \A s \in BusStops : \A d \in 0..MaxEvents :
      Occurrences(q.ret[s], d) = SameStopGaps(q.route, s, q.now, d)

\* trip id has a trip-finished event at a time <= now in the events of a run
FinishedIn(run, id, now) ==
  \E k \in 1..Len(run) :
    run[k].ev.kind = "TripFinished" /\ run[k].ev.id = id /\ run[k].time <= now

\* the duration of the trip-finished event of trip id in the events of a run
DurationIn(run, id) ==
  run[CHOOSE k \in 1..Len(run) : run[k].ev.kind = "TripFinished" /\ run[k].ev.id = id].ev.dt

\* the trips finished at a time <= now in the compared run and in the baseline
FinishedInBoth ==
  { id \in TripIDs : FinishedIn(trace, id, q.now) /\ FinishedIn(q.baseline, id, q.now) }

\* C24: finished_trip_deltas(now, baseline) returns exactly one value per
\* trip id with a non-aborted finished record at a time <= now in both
\* instances, the baseline duration minus this instance's duration; a trip
\* missing, aborted or finished after now in either instance adds nothing.
C24_FinishedTripDeltas ==
  (q.op = "finished_trip_deltas") =>
    /\ Len(q.ret) = Cardinality(FinishedInBoth)
    /\ \A d \in (-4)..4 :
         Occurrences(q.ret, d) =
           Cardinality({ id \in FinishedInBoth :
                           DurationIn(q.baseline, id) - DurationIn(trace, id) = d })

C24_Witness ==
  /\ q.op = "finished_trip_deltas"
  /\ q.now = 1
  /\ Len(q.baseline) = 2
  /\ q.baseline[2].ev = TripFinished(2, "Walk", 1)
  /\ q.baseline[2].time = 2
  /\ Len(an.finished_trips) = 2
  /\ \A k \in 1..2 : an.finished_trips[k].mode # NoMode /\ an.finished_trips[k].time <= 1
  /\ q.ret = << -1 >>

\* the delays of intersection i measured at a time t with lo < t <= hi, in order
DelaysWithin(i, lo, hi) ==
  LET Test(e) == /\ e.ev.kind = "IntersectionDelayMeasured" /\ e.ev.i = i
                 /\ lo < e.time /\ e.time <= hi
      evs == SelectSeq(trace, Test)
  IN [k \in 1..Len(evs) |-> evs[k].ev.dt]

\* C25: intersection_delays_bucketized(now, i, bucket) partitions the delays
\* of intersection i with time <= now into fixed-size buckets from
\* start-of-day to now: the bucket end times are strictly increasing
\* multiples of the bucket size capped at now, and each delay measured at t
\* is in the bucket whose end time is >= t while the previous bucket's end
\* time is < t, also when consecutive delays are more than one bucket apart.
C25_DelaysBucketized ==
  (q.op = "intersection_delays_bucketized") =>
    /\ \A k \in 1..(Len(q.ret) - 1) : q.ret[k].t < q.ret[k + 1].t
    /\ \A k \in 1..Len(q.ret) :
         /\ q.ret[k].t = Min((k - 1) * q.bucket, q.now)
         /\ q.ret[k].delays =
              DelaysWithin(q.i, IF k = 1 THEN -1 ELSE q.ret[k - 1].t, q.ret[k].t)
    /\ Len(DelaysWithin(q.i, q.ret[Len(q.ret)].t, q.now)) = 0

\* C26: each ingested event removes at most one element from the pending
\* expected-event queue, and only when the queue's front equals the event
\* exactly; an event equal to a later element but not to the front removes
\* nothing, so the expected events are consumed in their queued order and
\* the queue never grows or reorders during ingestion.
C26_ExpectationsPopFrontOnly ==
  [][ LET queue == an.test_expectations
          ev == trace'[Len(trace')].ev
      IN \/ an'.test_expectations = queue
         \/ /\ queue # <<>>
            /\ ev = Head(queue)
            /\ an'.test_expectations = Tail(queue)
    ]_vars

C26_Witness ==
  /\ an.record_anything
  /\ Len(trace) = 2
  /\ trace[1].ev = AgentEntersTraversable("car", "l1")
  /\ trace[2].ev = TripAborted(1)
  /\ an.test_expectations = << AgentEntersTraversable("car", "l1") >>

\* how many records of a raw log name the entity x
RawRecords(log, x) == Cardinality({ k \in 1..Len(log) : log[k].x = x })

\* the cumulative counters of a equal the numbers of raw records
CountersMatch(a) ==
  /\ \A r \in Roads : a.count_per_road[r] = RawRecords(a.raw_per_road, r)
  /\ \A i \in Intersections :
       a.count_per_intersection[i] = RawRecords(a.raw_per_intersection, i)

\* which parts of the throughput statistics a step leaves as they are
RoadSame == an'.count_per_road = an.count_per_road /\ an'.raw_per_road = an.raw_per_road
IntersectionSame ==
  /\ an'.count_per_intersection = an.count_per_intersection
  /\ an'.raw_per_intersection = an.raw_per_intersection
DemandSame == an'.demand = an.demand

\* C28 as stated: with ingestion enabled from the start the cumulative
\* counter of each road and of each intersection equals the number of its raw
\* records; an agent-entered-lane event changes only the road counter and road
\* log, an agent-entered-turn event only the intersection counter,
\* intersection log and demand, and no other event kind changes any of them.
C28_OnlyEntriesChangeThruputStats ==
  [][ an.record_anything =>
        LET ev == trace'[Len(trace')].ev IN
        /\ CountersMatch(an) /\ CountersMatch(an')
        /\ (ev.kind = "AgentEntersTraversable" /\ ev.to \in Lanes)
             => (IntersectionSame /\ DemandSame)
        /\ (ev.kind = "AgentEntersTraversable" /\ ev.to \in Turns) => RoadSame
        /\ (ev.kind # "AgentEntersTraversable")
             => (RoadSame /\ IntersectionSame /\ DemandSame)
    ]_vars

\* C28, amended: no other event kind changes a counter or a raw log, and of
\* the other kinds only a path-amended event changes the demand.
C28_CountersEqualRawRecords ==
  [][ an.record_anything =>
        LET ev == trace'[Len(trace')].ev IN
        /\ CountersMatch(an) /\ CountersMatch(an')
        /\ (ev.kind = "AgentEntersTraversable" /\ ev.to \in Lanes)
             => (IntersectionSame /\ DemandSame)
        /\ (ev.kind = "AgentEntersTraversable" /\ ev.to \in Turns) => RoadSame
        /\ (ev.kind # "AgentEntersTraversable") => (RoadSame /\ IntersectionSame)
        /\ (ev.kind \notin {"AgentEntersTraversable", "PathAmended"}) => DemandSame
    ]_vars

C28_Witness ==
  /\ an.record_anything
  /\ ~apanic
  /\ Len(trace) = 3
  /\ trace[1].ev = AgentEntersTraversable("car", "l1")
  /\ trace[2].ev = AgentEntersTraversable("ped", "t2")
  /\ trace[3].ev.kind = "PathAmended"
  /\ an.count_per_road["r1"] = 1
  /\ an.count_per_intersection["i1"] = 1
  /\ an.demand["g1"] = Usize(1)

\* C27: whenever advance leaves a ParkNearBuilding Router with exactly one
\* segment remaining, the eager resolution it performs makes the terminal
\* distance available: the spot is resolved and get_end_dist returns without
\* failing, also when the eager search found no parking (advance does not
\* pass the Vanish outcome on).
C27_EagerResolutionGivesEndDist ==
  \A r \in RouterIDs :
    ( /\ last.op = "advance" /\ last.r = r
      /\ ~panicked
      /\ routers[r].goal.type = "ParkNearBuilding"
      /\ last_step(routers[r].path) )
    => /\ may_ask_end_dist(routers[r].path)
       /\ routers[r].goal.spot # NoCache

====
